---- MODULE Spec2Model ----
(***************************************************************************)
(* A model of the recommender notebook                                     *)
(* 3_recommender_system/Recommendation-nodeflow.ipynb:                     *)
(*   - EdgeSampler and the training loop that consumes it (SpecSampler),   *)
(*   - the NodeFlow produced by the neighbor sampler and the GraphSage     *)
(*     encoder that runs on it (SpecEncoder),                              *)
(*   - the dot-product decoder (SpecDecoder).                              *)
(* Arrays are TLA+ sequences; the source's 0-based index k is position     *)
(* k + 1 of the sequence, and index arrays keep the source's 0-based       *)
(* values.                                                                 *)
(***************************************************************************)
EXTENDS Bags, FiniteSets, Integers, Sequences, TLC

(* ------------------------------ bounds -------------------------------- *)
\* number of edges of the training graph handed to EdgeSampler
MaxEdges == 4
\* the global batch_size
MaxBatch == 2
\* the global num_neighbors
MaxFanout == 2
\* the global num_layers (= number of GraphSage layers of the encoder)
MaxLayers == 2
\* calls of train() from the epoch loop
MaxEpochs == 2
\* __next__ calls made on an EdgeSampler that has already raised StopIteration
MaxStopCalls == 2
\* the embedding size of the vectors handed to the decoder
MaxDim == 2
\* trainer.step calls that change the biases
MaxSteps == 2
\* NodeFlows the prefetching sampler holds ahead of its consumer
MaxPrefetch == 2

VARIABLES
  g,             \* g_train / g: the sequence of directed edges [src, dst, rating]
  batch_size,    \* global batch_size
  num_neighbors, \* global num_neighbors
  num_layers,    \* global num_layers
  shuffle_idx,   \* EdgeSampler.__init__: the permutation drawn at construction
  es,            \* the EdgeSampler object: src_batches, dst_batches,
                 \*   rating_batches, sampler (the inner NeighborSampler iterator), i
  epoch,         \* number of train() calls started
  num_batches,   \* train(): num_batches
  item,          \* train(): the tuple (s, d, r, nodeflow) last returned by __next__
  raised,        \* who raised StopIteration in the last __next__ call, if anyone
  stop_calls,    \* number of __next__ calls of this EdgeSampler that raised
  pc,            \* position of train()
  mode,          \* who asked for the NodeFlow: "train" (EdgeSampler) or "test"
  nf,            \* the NodeFlow under computation: layers, blocks and the
                 \*   node data h, h_agg, deg of each layer
  users,         \* GNNRecommender.forward: users
  items,         \* GNNRecommender.forward: items
  enc_i,         \* GraphSageEncoder.forward: position in the running loop
  enc_h,         \* the value returned by GraphSageEncoder.forward
  h_users,       \* GNNRecommender.forward: h_users
  h_items,       \* GNNRecommender.forward: h_items
  enc_pc,        \* position of GraphSageEncoder.forward / GNNRecommender.forward
  biases,        \* DotDecoder.biases, the parameter node_biases
  score,         \* the value returned by DotDecoder.forward
  trainer_steps, \* number of trainer.step calls that changed the biases
  dec_pc,        \* position of the decoder's caller
  prefetched     \* the NodeFlows sampled ahead by the workers of the inner
                 \*   sampler (prefetch=True), oldest first

samplerVars == <<shuffle_idx, es, epoch, num_batches, item, raised, stop_calls, pc>>
globalVars == <<g, batch_size, num_neighbors, num_layers>>
decVars == <<biases, score, trainer_steps, dec_pc>>
encVars == <<mode, nf, users, items, enc_i, enc_h, h_users, h_items, enc_pc>>
workerVars == <<prefetched>>
vars == <<g, batch_size, num_neighbors, num_layers,
          shuffle_idx, es, epoch, num_batches, item, raised, stop_calls, pc,
          mode, nf, users, items, enc_i, enc_h, h_users, h_items, enc_pc,
          biases, score, trainer_steps, dec_pc, prefetched>>

(* ------------------------------ helpers ------------------------------- *)
Minimum(a, b) == IF a <= b THEN a ELSE b

Maximum(a, b) == IF a >= b THEN a ELSE b

CeilDiv(a, b) == (a + b - 1) \div b

\* the set of elements of an array
Elems(arr) == {arr[k] : k \in 1..Len(arr)}

\* arr[idx]: indexing by an array of 0-based indices
Take(arr, idx) == [k \in 1..Len(idx) |-> arr[idx[k] + 1]]

\* arr[i:j]: the slice of 0-based positions i .. j-1, clipped to the array
Slice(arr, i, j) == SubSeq(arr, i + 1, Minimum(j, Len(arr)))

\* range(start, stop, step), step > 0
Range(start, stop, step) ==
  [k \in 1..(IF stop > start THEN CeilDiv(stop - start, step) ELSE 0)
     |-> start + (k - 1) * step]

\* nd.concat(*seqs, dim=0)
RECURSIVE Concat(_)
Concat(seqs) == IF seqs = <<>> THEN <<>> ELSE Head(seqs) \o Concat(Tail(seqs))

(* ------------------------------- graph -------------------------------- *)
\* The MovieLens loader is replaced by the small bipartite graph of users
\* u1, u2, u3 and movies m1, m2 with the ratings u1-m1 5, u1-m2 3, u2-m1 4.
u1 == 0

u2 == 1

u3 == 2

m1 == 3

m2 == 4

Users == {u1, u2, u3}

Movies == {m1, m2}

Nodes == Users \cup Movies

number_of_nodes == Cardinality(Nodes)

\* g.ndata['type']: 1 on user nodes, 0 on movie nodes
NodeType(v) == IF v \in Users THEN 1 ELSE 0

Interactions == << <<u1, m1, 5>>, <<u1, m2, 3>>, <<u2, m1, 4>> >>

\* every interaction is stored as a pair of directed edges
DirectedEdge(k) ==
  LET r == Interactions[(k + 1) \div 2]
  IN  IF k % 2 = 1 THEN [src |-> r[1], dst |-> r[2], rating |-> r[3]]
                   ELSE [src |-> r[2], dst |-> r[1], rating |-> r[3]]

GraphEdges(n) == [k \in 1..n |-> DirectedEdge(k)]

\* g.all_edges() and g.edata['rating']
all_src(gr) == [k \in 1..Len(gr) |-> gr[k].src]

all_dst(gr) == [k \in 1..Len(gr) |-> gr[k].dst]

all_rating(gr) == [k \in 1..Len(gr) |-> gr[k].rating]

number_of_edges(gr) == Len(gr)

\* the in-neighbors of v in the graph
InNeighbors(gr, v) == {gr[k].src : k \in {k \in 1..Len(gr) : gr[k].dst = v}}

(* --------------------------- NeighborSampler -------------------------- *)
\* The arguments the notebook passes to dgl.contrib.sampling.NeighborSampler.
\* faulty variant: no self-loop is asked for
add_self_loop_Off == FALSE

add_self_loop == TRUE

\* faulty variant: the sampler is given batch_size itself
SamplerBatchSize_NotDoubled(B) == B

SamplerBatchSize(B) == B * 2

\* faulty variant: every neighbor is taken
SampleCount_All(K, deg) == deg

\* number of sampled neighbors of a node with deg in-neighbors: uniform
\* sampling of at most K neighbors without replacement
SampleCount(K, deg) == Minimum(K, deg)

\* the possible draws for node v
Samples(gr, v, K) ==
  {S \in SUBSET InNeighbors(gr, v) :
     Cardinality(S) = SampleCount(K, Cardinality(InNeighbors(gr, v)))}

\* the sources recorded for v: the draw, plus v itself with add_self_loop
BlockSources(S, v, selfloop) == IF selfloop THEN S \cup {v} ELSE S

\* all ways to sample every node of a layer: functions v |-> sources of v
RECURSIVE SampleLayer(_, _, _, _)
SampleLayer(gr, layer, K, selfloop) ==
  IF layer = {} THEN {[v \in {} |-> {}]}
  ELSE LET v == CHOOSE x \in layer : TRUE
       IN  {(v :> BlockSources(S, v, selfloop)) @@ f :
              S \in Samples(gr, v, K),
              f \in SampleLayer(gr, layer \ {v}, K, selfloop)}

\* the edges of a block: <<source in layer i, destination in layer i+1>>
BlockEdges(f) == UNION {{<<u, v>> : u \in f[v]} : v \in DOMAIN f}

\* Layers are numbered as NodeFlow numbers them: layer L (= layer -1) holds
\* the seeds, layer 0 the most distant sampled nodes; block i joins layer i
\* to layer i+1.
RECURSIVE Expand(_, _, _, _, _)
Expand(gr, K, selfloop, i, fl) ==
  IF i = 0 THEN {fl}
  ELSE UNION {Expand(gr, K, selfloop, i - 1,
                     [layers |-> ((i - 1) :> UNION {f[v] : v \in DOMAIN f}) @@ fl.layers,
                      blocks |-> ((i - 1) :> BlockEdges(f)) @@ fl.blocks]) :
              f \in SampleLayer(gr, fl.layers[i], K, selfloop)}

\* every NodeFlow the sampler can return for one window of seed nodes
NodeFlows(gr, seeds, K, L, selfloop) ==
  Expand(gr, K, selfloop, L,
         [layers |-> (L :> Elems(seeds)), blocks |-> [b \in {} |-> {}]])

\* the sampler cuts seed_nodes, unshuffled, into windows of bs seeds
NumSamplerBatches(seeds, bs) == CeilDiv(Len(seeds), bs)

SamplerWindow(seeds, bs, k) == Slice(seeds, k * bs, (k + 1) * bs)

nf_num_blocks(fl) == Cardinality(DOMAIN fl.blocks)

nf_num_layers(fl) == Cardinality(DOMAIN fl.layers)

\* the sampled in-neighbors recorded for v of layer i+1 in block i
BlockInNeighbors(fl, i, v) == {e[1] : e \in {e \in fl.blocks[i] : e[2] = v}}

(* ----------------------------- EdgeSampler ---------------------------- *)
\* faulty variant: indices drawn with replacement
permutation_WithReplacement(n) == [1..n -> 0..(n - 1)]

\* np.random.permutation(n): the arrays holding each of 0..n-1 once
permutation(n) ==
  {p \in [1..n -> 0..(n - 1)] : \A a, b \in 1..n : a # b => p[a] # p[b]}

\* faulty variant: only full batches are started
BatchStarts_FullOnly(E, B) == Range(0, E - B + 1, B)

\* range(0, g.number_of_edges(), batch_size)
BatchStarts(E, B) == Range(0, E, B)

\* one batch: shuffled[shuffle_idx[i:j]]
Batch(shuffled, idx, i, j) == Take(shuffled, Slice(idx, i, j))

\* the batches of one array: it is shuffled, then cut
Batches(arr, idx, E, B) ==
  LET shuffled == Take(arr, idx)
      starts == BatchStarts(E, B)
  IN  [k \in 1..Len(starts) |->
         Batch(shuffled, idx, starts[k], Minimum(starts[k] + B, E))]

\* nd.concat(*sum([[s, d] for s, d in zip(src_batches, dst_batches)], []))
SeedNodes(src_batches, dst_batches) ==
  Concat([k \in 1..Minimum(Len(src_batches), Len(dst_batches)) |->
            src_batches[k] \o dst_batches[k]])

\* EdgeSampler.__init__(g, src, dst, rating) with the permutation idx drawn
EdgeSamplerInit(gr, src, dst, rating, idx, B) ==
  LET E == number_of_edges(gr)
      sb == Batches(src, idx, E, B)
      db == Batches(dst, idx, E, B)
  IN  [src_batches |-> sb,
       dst_batches |-> db,
       rating_batches |-> Batches(rating, idx, E, B),
       sampler |-> [seed_nodes |-> SeedNodes(sb, db),
                    batch_size |-> SamplerBatchSize(B),
                    idx |-> 0],
       i |-> 0]

NoItem == [s |-> <<>>, d |-> <<>>, r |-> <<>>,
           nodeflow |-> [layers |-> [b \in {} |-> {}], blocks |-> [b \in {} |-> {}]]]

NoSampler == [src_batches |-> <<>>, dst_batches |-> <<>>, rating_batches |-> <<>>,
              sampler |-> [seed_nodes |-> <<>>, batch_size |-> 0, idx |-> 0],
              i |-> 0]

\* EdgeSampler.__next__: the three ways a call can end
NextStops == es.i = Len(es.src_batches)

InnerStops ==
  es.sampler.idx >= NumSamplerBatches(es.sampler.seed_nodes, es.sampler.batch_size)

NextRaises ==
  /\ NextStops
  /\ raised' = "EdgeSampler"
  /\ stop_calls' = stop_calls + 1
  /\ UNCHANGED <<es, item>>

NextInnerRaises ==
  /\ ~NextStops
  /\ InnerStops
  /\ es' = [es EXCEPT !.i = es.i + 1]
  /\ raised' = "NeighborSampler"
  /\ stop_calls' = stop_calls + 1
  /\ UNCHANGED item

NextYields ==
  /\ ~NextStops
  /\ ~InnerStops
  /\ \E fl \in NodeFlows(g,
                         SamplerWindow(es.sampler.seed_nodes, es.sampler.batch_size,
                                       es.sampler.idx),
                         num_neighbors, num_layers, add_self_loop) :
       item' = [s |-> es.src_batches[es.i + 1],
                d |-> es.dst_batches[es.i + 1],
                r |-> es.rating_batches[es.i + 1],
                nodeflow |-> fl]
  /\ es' = [es EXCEPT !.i = es.i + 1, !.sampler.idx = es.sampler.idx + 1]
  /\ raised' = "none"
  /\ UNCHANGED stop_calls

(* -------------------------- GraphSageEncoder -------------------------- *)
\* the edges of a batch, in edge order
BatchIndex(S) ==
  [k \in 1..Cardinality(S) |->
     CHOOSE e \in S : Cardinality({x \in S : x < e}) = k - 1]

\* DotDecoder.__init__: node_biases of shape (num_nodes + 1,), zero at first
InitialBiases(num_nodes) == [k \in 1..(num_nodes + 1) |-> 0]

DecoderIdle ==
  /\ biases = InitialBiases(number_of_nodes)
  /\ score = <<>>
  /\ trainer_steps = 0
  /\ dec_pc = "ready"

NoData == [x \in {} |-> {}]

NoFlow == [layers |-> NoData, blocks |-> NoData,
           h |-> NoData, h_agg |-> NoData, deg |-> NoData]

EncoderIdle ==
  /\ mode = "none"
  /\ nf = NoFlow
  /\ users = <<>>
  /\ items = <<>>
  /\ enc_i = 0
  /\ enc_h = NoData
  /\ h_users = <<>>
  /\ h_items = <<>>
  /\ enc_pc = "idle"

\* NodeFlow gives its nodes ids of its own, layer after layer from layer 0;
\* within a layer the nodes are taken in the order of their parent ids.
LayerOffset(f, i) ==
  LET RECURSIVE Off(_)
      Off(j) == IF j = 0 THEN 0 ELSE Off(j - 1) + Cardinality(f.layers[j - 1])
  IN  Off(i)

LayerIndex(f, i, v) == Cardinality({w \in f.layers[i] : w < v})

\* nf.layer_nid(i), as the map from the parent id to the NodeFlow id
layer_nid(f, i) == [v \in f.layers[i] |-> LayerOffset(f, i) + LayerIndex(f, i, v)]

\* nf.map_from_parent_nid(layer, ids, True): the position in the layer of
\* each parent id, -1 where the layer does not hold it
map_from_parent_nid(f, i, ids) ==
  [k \in 1..Len(ids) |->
     IF ids[k] \in f.layers[i] THEN LayerIndex(f, i, ids[k]) ELSE -1]

\* the rows of a layer's data picked by positions in the layer
Rows(f, i, data, idx) ==
  [k \in 1..Len(idx) |->
     IF \E v \in DOMAIN data : LayerIndex(f, i, v) = idx[k]
       THEN data[CHOOSE v \in DOMAIN data : LayerIndex(f, i, v) = idx[k]]
       ELSE <<"IndexError">>]

\* faulty variant: the user update is applied whatever the type of the node
user_nodes_AnyType(f, i) == f.layers[i]

\* the nodes of layer i of each type
user_nodes(f, i) == {v \in f.layers[i] : NodeType(v) = 1}

movie_nodes(f, i) == {v \in f.layers[i] : NodeType(v) = 0}

\* Embeddings are kept as terms over the learned parameters.
\* UserEmbedding.forward(ndata, nid): row nid + 1 of node_emb plus the
\* embeddings of the features of the node (those of parent node v).
UserEmbedding(v, nid) == <<"user_emb", nid + 1, v>>

\* MovieEmbedding.forward(ndata, nid)
MovieEmbedding(v, nid) == <<"movie_emb", nid + 1, v>>

IsInitialEmbedding(t) == t[1] \in {"user_emb", "movie_emb"}

\* 1 / 1e-6: divisors are counted in units of 1e-6
EpsInv == 1000000

\* nd.maximum(deg, 1e-6), in units of 1e-6
Divisor(d) == Maximum(d * EpsInv, 1)

\* GraphSageNodeUpdate.forward of layers[i] (user_layers or movie_layers):
\* normalize(leaky_relu(W . concat(h, h_agg / maximum(deg, 1e-6))))
GraphSageNodeUpdate(layers, i, h, h_agg, d) ==
  <<"update", layers, i, h, h_agg, Divisor(d)>>

IsUpdate(t, i) == t[1] = "update" /\ t[3] = i

\* FN.sum over the messages FN.copy_src('h', 'h') of a set of sources
RECURSIVE SumOf(_, _)
SumOf(S, data) ==
  IF S = {} THEN EmptyBag
  ELSE LET u == CHOOSE x \in S : TRUE
       IN  SetToBag({data[u]}) (+) SumOf(S \ {u}, data)

ZeroVector == EmptyBag

\* nf.layer_in_degree(i + 1)
layer_in_degree(f, i) ==
  [v \in f.layers[i] |-> Cardinality({e \in f.blocks[i - 1] : e[2] = v})]

\* nf.block_compute(i, FN.copy_src('h', 'h'), FN.sum('h', 'h_agg'))
block_compute(f, i) ==
  [v \in f.layers[i + 1] |-> SumOf(BlockInNeighbors(f, i, v), f.h[i])]

\* faulty variant: the blocks are walked from the seed layer down
BlockOrder_Reversed(n) == [k \in 1..n |-> n - k]

\* range(nf.num_blocks)
BlockOrder(n) == Range(0, n, 1)

\* faulty variant: the deepest layer is returned
OutputLayer_First(f) == 0

\* the index -1 of nf.layers[-1]
OutputLayer(f) == nf_num_layers(f) - 1

\* the sampler hands a NodeFlow for the seed nodes to its consumer
NewFlow(seeds) ==
  \E f \in NodeFlows(g, seeds, num_neighbors, num_layers, add_self_loop) :
    nf' = [layers |-> f.layers, blocks |-> f.blocks,
           h |-> NoData, h_agg |-> NoData, deg |-> NoData]

\* train(): model.forward(nodeflow, s, d) on one batch of edges
TrainBatch ==
  /\ enc_pc = "idle"
  /\ \E S \in SUBSET (1..number_of_edges(g)) :
       /\ Cardinality(S) >= 1
       /\ Cardinality(S) <= batch_size
       /\ LET idx == BatchIndex(S)
              s == [k \in 1..Len(idx) |-> g[idx[k]].src]
              d == [k \in 1..Len(idx) |-> g[idx[k]].dst]
          IN  /\ users' = s
              /\ items' = d
              /\ NewFlow(SamplerWindow(SeedNodes(<<s>>, <<d>>),
                                       SamplerBatchSize(batch_size), 0))
  /\ mode' = "train"
  /\ enc_i' = 0
  /\ enc_pc' = "embed"
  /\ UNCHANGED <<enc_h, h_users, h_items>>
  /\ UNCHANGED <<globalVars, samplerVars, decVars, workerVars>>

\* test(): model.encoder(nf) on one window of all the nodes of the graph
TestBatch ==
  /\ enc_pc = "idle"
  /\ LET seed_nodes == Range(0, number_of_nodes, 1)
     IN  \E k \in 0..(NumSamplerBatches(seed_nodes, batch_size) - 1) :
           NewFlow(SamplerWindow(seed_nodes, batch_size, k))
  /\ mode' = "test"
  /\ enc_i' = 0
  /\ enc_pc' = "embed"
  /\ UNCHANGED <<users, items, enc_h, h_users, h_items>>
  /\ UNCHANGED <<globalVars, samplerVars, decVars, workerVars>>

\* first loop of forward, one layer: the embeddings of its user nodes and of
\* its movie nodes are generated
GenerateEmbeddings ==
  /\ enc_pc = "embed"
  /\ enc_i < nf_num_layers(nf)
  /\ LET ids == layer_nid(nf, enc_i)
         rows == [v \in nf.layers[enc_i] |->
                    IF NodeType(v) = 1 THEN UserEmbedding(v, ids[v])
                                       ELSE MovieEmbedding(v, ids[v])]
     IN  nf' = [nf EXCEPT !.h = (enc_i :> rows) @@ nf.h]
  /\ enc_i' = IF enc_i + 1 < nf_num_layers(nf) THEN enc_i + 1 ELSE 0
  /\ enc_pc' = IF enc_i + 1 < nf_num_layers(nf) THEN "embed"
               ELSE IF nf_num_blocks(nf) > 0 THEN "block" ELSE "return"
  /\ UNCHANGED <<mode, users, items, enc_h, h_users, h_items>>
  /\ UNCHANGED <<globalVars, samplerVars, decVars, workerVars>>

\* the block handled by the running iteration of the second loop
CurrentBlock == BlockOrder(nf_num_blocks(nf))[enc_i + 1]

\* second loop, one block: the in-degrees and the message aggregates of
\* layer i+1
BlockCompute ==
  /\ enc_pc = "block"
  /\ LET i == CurrentBlock
     IN  nf' = [nf EXCEPT !.deg = ((i + 1) :> layer_in_degree(nf, i + 1)) @@ nf.deg,
                          !.h_agg = ((i + 1) :> block_compute(nf, i)) @@ nf.h_agg]
  /\ enc_pc' = "apply_user"
  /\ UNCHANGED <<mode, users, items, enc_i, enc_h, h_users, h_items>>
  /\ UNCHANGED <<globalVars, samplerVars, decVars, workerVars>>

\* apply_layer(i + 1, layers[i], v = nodes): the rows of the nodes are replaced
ApplyLayer(f, i, layers, nodes) ==
  [f EXCEPT !.h = ((i + 1) :>
      [v \in DOMAIN f.h[i + 1] |->
         IF v \in nodes
           THEN GraphSageNodeUpdate(layers, i, f.h[i + 1][v], f.h_agg[i + 1][v],
                                    f.deg[i + 1][v])
           ELSE f.h[i + 1][v]]) @@ f.h]

\* second loop: the user nodes of layer i+1 are updated by user_layers[i]
ApplyUserLayer ==
  /\ enc_pc = "apply_user"
  /\ LET i == CurrentBlock
     IN  nf' = IF user_nodes(nf, i + 1) # {}
                 THEN ApplyLayer(nf, i, "user_layers", user_nodes(nf, i + 1))
                 ELSE nf
  /\ enc_pc' = "apply_movie"
  /\ UNCHANGED <<mode, users, items, enc_i, enc_h, h_users, h_items>>
  /\ UNCHANGED <<globalVars, samplerVars, decVars, workerVars>>

\* second loop: the movie nodes of layer i+1 are updated by movie_layers[i]
ApplyMovieLayer ==
  /\ enc_pc = "apply_movie"
  /\ LET i == CurrentBlock
     IN  nf' = IF movie_nodes(nf, i + 1) # {}
                 THEN ApplyLayer(nf, i, "movie_layers", movie_nodes(nf, i + 1))
                 ELSE nf
  /\ enc_i' = IF enc_i + 1 < nf_num_blocks(nf) THEN enc_i + 1 ELSE 0
  /\ enc_pc' = IF enc_i + 1 < nf_num_blocks(nf) THEN "block" ELSE "return"
  /\ UNCHANGED <<mode, users, items, enc_h, h_users, h_items>>
  /\ UNCHANGED <<globalVars, samplerVars, decVars, workerVars>>

\* return nf.layers[-1].data['h']
EncoderReturn ==
  /\ enc_pc = "return"
  /\ enc_h' = nf.h[OutputLayer(nf)]
  /\ enc_pc' = IF mode = "train" THEN "lookup" ELSE "done"
  /\ UNCHANGED <<mode, nf, users, items, enc_i, h_users, h_items>>
  /\ UNCHANGED <<globalVars, samplerVars, decVars, workerVars>>

\* GNNRecommender.forward: the rows of the users and of the items (the
\* decoder they are handed to is DecoderForward)
RecommenderLookup ==
  /\ enc_pc = "lookup"
  /\ h_users' = Rows(nf, OutputLayer(nf), enc_h,
                     map_from_parent_nid(nf, nf_num_layers(nf) - 1, users))
  /\ h_items' = Rows(nf, OutputLayer(nf), enc_h,
                     map_from_parent_nid(nf, nf_num_layers(nf) - 1, items))
  /\ enc_pc' = "done"
  /\ UNCHANGED <<mode, nf, users, items, enc_i, enc_h>>
  /\ UNCHANGED <<globalVars, samplerVars, decVars, workerVars>>

EncoderInit ==
  /\ \E n \in 1..Len(Interactions) : g = GraphEdges(2 * n)
  /\ batch_size \in 1..MaxBatch
  /\ num_neighbors \in 1..MaxFanout
  /\ num_layers \in 1..MaxLayers
  /\ shuffle_idx = <<>>
  /\ es = NoSampler
  /\ epoch = 0
  /\ num_batches = 0
  /\ item = NoItem
  /\ raised = "none"
  /\ stop_calls = 0
  /\ pc = "idle"
  /\ EncoderIdle
  /\ DecoderIdle
  /\ prefetched = <<>>

EncoderNext ==
  \/ TrainBatch
  \/ TestBatch
  \/ GenerateEmbeddings
  \/ BlockCompute
  \/ ApplyUserLayer
  \/ ApplyMovieLayer
  \/ EncoderReturn
  \/ RecommenderLookup

SpecEncoder == EncoderInit /\ [][EncoderNext]_vars

(* ----------------------------- DotDecoder ----------------------------- *)
\* a + 1 on an array of ids
PlusOne(ids) == [k \in 1..Len(ids) |-> ids[k] + 1]

\* (a * b).sum(1): the rows multiplied entry by entry, then summed
RECURSIVE SumEntries(_)
SumEntries(row) == IF row = <<>> THEN 0 ELSE Head(row) + SumEntries(Tail(row))

MulSum1(a, b) ==
  [k \in 1..Len(a) |-> SumEntries([c \in 1..Len(a[k]) |-> a[k][c] * b[k][c]])]

\* faulty variant: the item biases are read at the user ids
DotDecoderForward_UserBiasTwice(b, hu, hi, u, i) ==
  LET user_biases == Take(b, PlusOne(u))
      item_biases == Take(b, PlusOne(u))
      dot == MulSum1(hu, hi)
  IN  [k \in 1..Len(dot) |-> dot[k] + user_biases[k] + item_biases[k]]

\* DotDecoder.forward(h_users, h_items, users, items)
DotDecoderForward(b, hu, hi, u, i) ==
  LET user_biases == Take(b, PlusOne(u))
      item_biases == Take(b, PlusOne(i))
      dot == MulSum1(hu, hi)
  IN  [k \in 1..Len(dot) |-> dot[k] + user_biases[k] + item_biases[k]]

\* the embedding tables the decoder is tried on: one vector of MaxDim small
\* integers per node
EmbeddingTables ==
  {[v \in Nodes |-> [c \in 1..MaxDim |-> (((v + a) * (c + b)) % 3) - 1]] :
     a \in 0..1, b \in 0..1}

\* model.decoder(h_users, h_items, users, items) on one batch of edges
DecoderForward ==
  /\ dec_pc = "ready"
  /\ \E S \in SUBSET (1..number_of_edges(g)) : \E H \in EmbeddingTables :
       /\ Cardinality(S) >= 1
       /\ Cardinality(S) <= batch_size
       /\ LET idx == BatchIndex(S)
              u == [k \in 1..Len(idx) |-> g[idx[k]].src]
              i == [k \in 1..Len(idx) |-> g[idx[k]].dst]
              hu == [k \in 1..Len(idx) |-> H[u[k]]]
              hi == [k \in 1..Len(idx) |-> H[i[k]]]
          IN  /\ users' = u
              /\ items' = i
              /\ h_users' = hu
              /\ h_items' = hi
              /\ score' = DotDecoderForward(biases, hu, hi, u, i)
  /\ dec_pc' = "scored"
  /\ UNCHANGED <<biases, trainer_steps>>
  /\ UNCHANGED <<mode, nf, enc_i, enc_h, enc_pc>>
  /\ UNCHANGED <<globalVars, samplerVars, workerVars>>

\* trainer.step(1): the optimizer moves an entry of the biases; the batch
\* that was scored is dropped
BiasStep ==
  /\ dec_pc = "scored"
  /\ trainer_steps < MaxSteps
  /\ \E k \in DOMAIN biases : biases' = [biases EXCEPT ![k] = @ + 1]
  /\ trainer_steps' = trainer_steps + 1
  /\ dec_pc' = "ready"
  /\ score' = <<>>
  /\ users' = <<>>
  /\ items' = <<>>
  /\ h_users' = <<>>
  /\ h_items' = <<>>
  /\ UNCHANGED <<mode, nf, enc_i, enc_h, enc_pc>>
  /\ UNCHANGED <<globalVars, samplerVars, workerVars>>

DecoderInit ==
  /\ g = GraphEdges(2 * Len(Interactions))
  /\ batch_size \in 1..MaxBatch
  /\ num_neighbors = 1
  /\ num_layers = 1
  /\ shuffle_idx = <<>>
  /\ es = NoSampler
  /\ epoch = 0
  /\ num_batches = 0
  /\ item = NoItem
  /\ raised = "none"
  /\ stop_calls = 0
  /\ pc = "idle"
  /\ EncoderIdle
  /\ DecoderIdle
  /\ prefetched = <<>>

DecoderNext ==
  \/ DecoderForward
  \/ BiasStep

SpecDecoder == DecoderInit /\ [][DecoderNext]_vars

(* ------------------------------- train -------------------------------- *)
\* train(): EdgeSampler(g_train, src, dst, rating_train) is constructed
TrainCall ==
  /\ pc = "idle"
  /\ epoch < MaxEpochs
  /\ epoch' = epoch + 1
  /\ \E p \in permutation(number_of_edges(g)) :
       /\ shuffle_idx' = p
       /\ es' = EdgeSamplerInit(g, all_src(g), all_dst(g), all_rating(g), p, batch_size)
  /\ num_batches' = 0
  /\ item' = NoItem
  /\ raised' = "none"
  /\ stop_calls' = 0
  /\ pc' = "for"
  /\ UNCHANGED <<globalVars, encVars, decVars, workerVars>>

\* the for statement asks the iterator for its next item
ForNext ==
  /\ pc = "for"
  /\ \/ NextYields /\ pc' = "forward"
     \/ NextRaises /\ pc' = "return"
     \/ NextInnerRaises /\ pc' = "return"
  /\ UNCHANGED <<shuffle_idx, epoch, num_batches>>
  /\ UNCHANGED <<globalVars, encVars, decVars, workerVars>>

\* model.forward, the loss and loss.backward() under autograd.record()
ForwardBackward ==
  /\ pc = "forward"
  /\ pc' = "step"
  /\ UNCHANGED <<shuffle_idx, es, epoch, num_batches, item, raised, stop_calls>>
  /\ UNCHANGED <<globalVars, encVars, decVars, workerVars>>

\* the parameters after trainer.step(1) on the gradients of a batch: the
\* bias entries of the users and items of the batch move (by one unit of
\* the integers that stand for the entries)
OptimizerStep(b, s, d) ==
  [k \in DOMAIN b |->
     IF \E v \in Elems(s) \cup Elems(d) : k = v + 2 THEN b[k] + 1 ELSE b[k]]

\* faulty variant: the loop goes on without the optimizer step
TrainerStep_Skipped ==
  /\ pc = "step"
  /\ num_batches' = num_batches + 1
  /\ pc' = "for"
  /\ UNCHANGED <<shuffle_idx, es, epoch, item, raised, stop_calls>>
  /\ UNCHANGED <<globalVars, encVars, decVars, workerVars>>

\* trainer.step(1) and the loop's bookkeeping
TrainerStep ==
  /\ pc = "step"
  /\ biases' = OptimizerStep(biases, item.s, item.d)
  /\ trainer_steps' = trainer_steps + 1
  /\ num_batches' = num_batches + 1
  /\ pc' = "for"
  /\ UNCHANGED <<shuffle_idx, es, epoch, item, raised, stop_calls>>
  /\ UNCHANGED <<score, dec_pc>>
  /\ UNCHANGED <<globalVars, encVars, workerVars>>

\* a further __next__ call on the EdgeSampler whose loop has ended
NextAfterStop ==
  /\ pc = "return"
  /\ stop_calls < MaxStopCalls
  /\ \/ NextYields
     \/ NextRaises
     \/ NextInnerRaises
  /\ UNCHANGED <<shuffle_idx, epoch, num_batches, pc>>
  /\ UNCHANGED <<globalVars, encVars, decVars, workerVars>>

\* train() returns: its EdgeSampler and its locals are gone; the epoch loop
\* goes on
TrainReturn ==
  /\ pc = "return"
  /\ pc' = "idle"
  /\ shuffle_idx' = <<>>
  /\ es' = NoSampler
  /\ num_batches' = 0
  /\ item' = NoItem
  /\ raised' = "none"
  /\ stop_calls' = 0
  /\ UNCHANGED epoch
  /\ UNCHANGED <<globalVars, encVars, decVars, workerVars>>

SamplerInit ==
  /\ \E n \in 1..Minimum(MaxEdges, 2 * Len(Interactions)) : g = GraphEdges(n)
  /\ batch_size \in 1..MaxBatch
  /\ num_neighbors \in 1..MaxFanout
  /\ num_layers = 1
  /\ shuffle_idx = <<>>
  /\ es = NoSampler
  /\ epoch = 0
  /\ num_batches = 0
  /\ item = NoItem
  /\ raised = "none"
  /\ stop_calls = 0
  /\ pc = "idle"
  /\ EncoderIdle
  /\ DecoderIdle
  /\ prefetched = <<>>

SamplerNext ==
  \/ TrainCall
  \/ ForNext
  \/ ForwardBackward
  \/ TrainerStep
  \/ NextAfterStop
  \/ TrainReturn

SpecSampler == SamplerInit /\ [][SamplerNext]_vars

(* ------------------- train with the prefetching workers --------------- *)
\* prefetch=True, num_workers=4: while train() runs, the workers of the
\* inner sampler sample the NodeFlow of the next window of seed nodes ahead
\* of the consumer; they read the graph and write the sampler's own state
Prefetch ==
  /\ pc \in {"for", "forward", "step"}
  /\ ~InnerStops
  /\ Len(prefetched) < MaxPrefetch
  /\ \E fl \in NodeFlows(g,
                         SamplerWindow(es.sampler.seed_nodes, es.sampler.batch_size,
                                       es.sampler.idx),
                         num_neighbors, num_layers, add_self_loop) :
       prefetched' = Append(prefetched, fl)
  /\ es' = [es EXCEPT !.sampler.idx = es.sampler.idx + 1]
  /\ UNCHANGED <<shuffle_idx, epoch, num_batches, item, raised, stop_calls, pc>>
  /\ UNCHANGED <<globalVars, encVars, decVars>>

\* EdgeSampler.__next__ when next(self.sampler) hands out the oldest
\* prefetched NodeFlow (and waits for the workers while there is none yet)
NextYieldsPrefetched ==
  /\ ~NextStops
  /\ prefetched # <<>>
  /\ item' = [s |-> es.src_batches[es.i + 1],
              d |-> es.dst_batches[es.i + 1],
              r |-> es.rating_batches[es.i + 1],
              nodeflow |-> Head(prefetched)]
  /\ prefetched' = Tail(prefetched)
  /\ es' = [es EXCEPT !.i = es.i + 1]
  /\ raised' = "none"
  /\ UNCHANGED stop_calls

\* the for statement of train() on the prefetching sampler
ForNextPrefetched ==
  /\ pc = "for"
  /\ \/ NextYieldsPrefetched /\ pc' = "forward"
     \/ NextRaises /\ pc' = "return" /\ UNCHANGED prefetched
     \/ prefetched = <<>> /\ NextInnerRaises /\ pc' = "return" /\ UNCHANGED prefetched
  /\ UNCHANGED <<shuffle_idx, epoch, num_batches>>
  /\ UNCHANGED <<globalVars, encVars, decVars>>

TrainNext ==
  \/ TrainCall
  \/ Prefetch
  \/ ForNextPrefetched
  \/ ForwardBackward
  \/ TrainerStep
  \/ TrainReturn

SpecTrain == SamplerInit /\ [][TrainNext]_vars

(* ------------------- properties of the EdgeSampler -------------------- *)
Constructed == pc # "idle"

NumEdges == number_of_edges(g)

\* how often t occurs in an array
Count(t, arr) == Cardinality({k \in 1..Len(arr) : arr[k] = t})

\* the (src, dst, rating) triples of the input edges, in edge order
InputTriples == [k \in 1..NumEdges |-> <<g[k].src, g[k].dst, g[k].rating>>]

\* the triples held by batch k, position by position
BatchTriples(k) ==
  [j \in 1..Len(es.src_batches[k]) |->
     <<es.src_batches[k][j], es.dst_batches[k][j], es.rating_batches[k][j]>>]

AllBatchTriples == Concat([k \in 1..Len(es.src_batches) |-> BatchTriples(k)])

\* C1: the batches built by EdgeSampler.__init__ partition the input edges:
\* the three batch lists are aligned, every input (src, dst, rating) edge
\* occurs in the batches exactly as often as in the input (once), nothing
\* else occurs, and every batch has batch_size edges except possibly the
\* last, which has between 1 and batch_size.
C1_BatchesPartitionEdges ==
  Constructed =>
    LET n == Len(es.src_batches)
    IN  /\ Len(es.dst_batches) = n
        /\ Len(es.rating_batches) = n
        /\ \A k \in 1..n :
             /\ Len(es.dst_batches[k]) = Len(es.src_batches[k])
             /\ Len(es.rating_batches[k]) = Len(es.src_batches[k])
             /\ Len(es.src_batches[k]) >= 1
             /\ Len(es.src_batches[k]) <= batch_size
             /\ k < n => Len(es.src_batches[k]) = batch_size
        /\ Len(AllBatchTriples) = NumEdges
        /\ \A t \in Elems(InputTriples) \cup Elems(AllBatchTriples) :
             Count(t, AllBatchTriples) = Count(t, InputTriples)

\* C1 witness: a sampler built from a permutation that moves edges, with
\* several batches of which the last is smaller
C1_Witness ==
  /\ Constructed
  /\ Len(es.src_batches) >= 2
  /\ NumEdges % batch_size # 0
  /\ \E k \in 1..NumEdges : shuffle_idx[k] # k - 1

\* the edge arrays after the one shuffle of lines 468-470
OnceShuffled(arr) == Take(arr, shuffle_idx)

\* C2 (as the specification states it): the edges are permuted once, and
\* batch k is the contiguous slice [k*B, min((k+1)*B, E)) of that
\* once-shuffled edge sequence.
C2_BatchIsSliceOfShuffled ==
  Constructed =>
    \A k \in 1..Len(es.src_batches) :
      LET i == (k - 1) * batch_size
          j == Minimum(k * batch_size, NumEdges)
      IN  /\ es.src_batches[k] = Slice(OnceShuffled(all_src(g)), i, j)
          /\ es.dst_batches[k] = Slice(OnceShuffled(all_dst(g)), i, j)
          /\ es.rating_batches[k] = Slice(OnceShuffled(all_rating(g)), i, j)

\* the seed layer of a NodeFlow
SeedLayer(fl) == fl.layers[nf_num_layers(fl) - 1]

Yielded == item # NoItem

\* C3: the Flow returned with the k-th batch is the Flow whose seed nodes
\* are exactly the source and destination endpoints of that batch.
C3_FlowSeedsAreBatchEndpoints ==
  Yielded =>
    /\ item.s = es.src_batches[es.i]
    /\ item.d = es.dst_batches[es.i]
    /\ item.r = es.rating_batches[es.i]
    /\ nf_num_layers(item.nodeflow) = num_layers + 1
    /\ SeedLayer(item.nodeflow) = Elems(item.s) \cup Elems(item.d)

\* C3 witness: the last, smaller batch has been returned after another one
C3_Witness ==
  /\ Yielded
  /\ es.i >= 2
  /\ es.i = Len(es.src_batches)
  /\ Len(item.s) < batch_size
  /\ raised = "none"

\* C4: an EdgeSampler yields exactly ceil(E/B) items, the inner sampler
\* is never exhausted before the batches are, once __next__ has raised
\* StopIteration every further call on that sampler raises it again and
\* changes nothing,
\* and every train() call constructs a fresh EdgeSampler at position 0 from
\* a newly drawn permutation.
C4_OnePassThenStop ==
  /\ [](raised # "NeighborSampler")
  /\ []((Constructed /\ raised = "none") =>
          /\ es.i = es.sampler.idx
          /\ es.i <= CeilDiv(NumEdges, batch_size)
          /\ num_batches <= es.i)
  /\ [](raised = "EdgeSampler" =>
          /\ es.i = CeilDiv(NumEdges, batch_size)
          /\ num_batches = CeilDiv(NumEdges, batch_size))
  /\ [][(raised = "EdgeSampler" /\ pc' # "idle") =>
          (raised' = "EdgeSampler" /\ es' = es /\ item' = item
             /\ num_batches' = num_batches)]_vars
  /\ [][epoch' # epoch =>
          (/\ epoch' = epoch + 1
           /\ shuffle_idx' \in permutation(NumEdges)
           /\ es'.i = 0
           /\ es'.sampler.idx = 0
           /\ Len(es'.src_batches) = CeilDiv(NumEdges, batch_size)
           /\ num_batches' = 0
           /\ raised' = "none")]_vars

\* C4 witness: in the second epoch the sampler is exhausted and has been
\* asked again
C4_Witness ==
  /\ epoch = 2
  /\ raised = "EdgeSampler"
  /\ stop_calls >= 2
  /\ num_batches >= 2

(* ------------- properties of the NodeFlow and the encoder ------------- *)
FlowBuilt == enc_pc # "idle"

\* the nodes that have no neighbor in the graph
Isolated(v) == InNeighbors(g, v) = {}

\* C5 (as the specification states it): the block of sampled in-neighbors
\* recorded for a node v contains at most K entries, contains v itself, and
\* contains only true neighbors of v or v.
C5_BlockAtMostK ==
  FlowBuilt =>
    \A i \in DOMAIN nf.blocks : \A v \in nf.layers[i + 1] :
      /\ Cardinality(BlockInNeighbors(nf, i, v)) <= num_neighbors
      /\ v \in BlockInNeighbors(nf, i, v)
      /\ BlockInNeighbors(nf, i, v) \subseteq InNeighbors(g, v) \cup {v}

\* C5 (amended): the block recorded for v contains at most K sampled
\* neighbors besides v itself, hence at most K + 1 entries; it always
\* contains v, and only true neighbors of v or v.
C5_BlockAtMostKPlusSelf ==
  FlowBuilt =>
    \A i \in DOMAIN nf.blocks : \A v \in nf.layers[i + 1] :
      /\ Cardinality(BlockInNeighbors(nf, i, v) \ {v}) <= num_neighbors
      /\ Cardinality(BlockInNeighbors(nf, i, v)) <= num_neighbors + 1
      /\ v \in BlockInNeighbors(nf, i, v)
      /\ BlockInNeighbors(nf, i, v) \subseteq InNeighbors(g, v) \cup {v}

\* C5 witness: a node with more than K neighbors was sampled down to K of
\* them, and its block holds those K and itself
C5_Witness ==
  /\ FlowBuilt
  /\ \E i \in DOMAIN nf.blocks : \E v \in nf.layers[i + 1] :
       /\ Cardinality(InNeighbors(g, v)) > num_neighbors
       /\ Cardinality(BlockInNeighbors(nf, i, v)) = num_neighbors + 1

ScenarioGraph == g = GraphEdges(2 * Len(Interactions))

\* C6: on the graph u1-m1, u1-m2, u2-m1 with fan-out 2 and depth 1, the
\* block of seed u1 is exactly {m1, m2, u1} whatever is drawn.
C6_ScenarioBlock ==
  (/\ FlowBuilt
   /\ ScenarioGraph
   /\ num_neighbors = 2
   /\ num_layers = 1
   /\ u1 \in SeedLayer(nf)) =>
    BlockInNeighbors(nf, 0, u1) = {m1, m2, u1}

\* C6 witness: the flow of the single seed u1 on the scenario graph
C6_Witness ==
  /\ FlowBuilt
  /\ ScenarioGraph
  /\ num_neighbors = 2
  /\ num_layers = 1
  /\ SeedLayer(nf) = {u1}
  /\ nf.layers[0] = {m1, m2, u1}

Returned == enc_pc \in {"lookup", "done"}

\* C7: the embeddings returned by the encoder are defined for exactly the
\* seed nodes of the flow, and every user and item of the batch looked up
\* by GNNRecommender.forward resolves to the row of that node.
C7_OutputOnExactlySeeds ==
  /\ Returned =>
       /\ DOMAIN enc_h = SeedLayer(nf)
       /\ mode = "train" => SeedLayer(nf) = Elems(users) \cup Elems(items)
  /\ (enc_pc = "done" /\ mode = "train") =>
       /\ Len(h_users) = Len(users)
       /\ Len(h_items) = Len(items)
       /\ \A k \in 1..Len(users) :
            /\ map_from_parent_nid(nf, nf_num_layers(nf) - 1, users)[k] >= 0
            /\ h_users[k] = nf.h[nf_num_layers(nf) - 1][users[k]]
       /\ \A k \in 1..Len(items) :
            /\ map_from_parent_nid(nf, nf_num_layers(nf) - 1, items)[k] >= 0
            /\ h_items[k] = nf.h[nf_num_layers(nf) - 1][items[k]]

\* C7 witness: a batch of two edges was looked up in a flow whose deepest
\* layer holds more nodes than the seed layer
C7_Witness ==
  /\ enc_pc = "done"
  /\ mode = "train"
  /\ Len(users) >= 2
  /\ nf.layers[0] # SeedLayer(nf)

\* the divisors of the updates applied so far are positive
DivisorsPositive ==
  /\ \A j \in DOMAIN nf.deg : \A v \in nf.layers[j] : Divisor(nf.deg[j][v]) > 0
  /\ \A j \in DOMAIN nf.h : \A v \in DOMAIN nf.h[j] :
       nf.h[j][v][1] = "update" => nf.h[j][v][6] > 0

\* C9 (as the specification states it): a node with no neighbors in the
\* graph has the zero vector as message aggregate, and the divisor of the
\* update is never zero.
C9_IsolatedAggregateIsZero ==
  /\ \A j \in DOMAIN nf.h_agg : \A v \in nf.layers[j] :
       Isolated(v) => nf.h_agg[j][v] = ZeroVector
  /\ DivisorsPositive

\* C9 (amended): for a node with no neighbors in the graph the self-loop is
\* its only sampled in-neighbor, so its message aggregate is its own
\* embedding of the adjacent deeper layer and its degree is 1; the divisor
\* of the update is never zero, for any node of any flow.
C9_IsolatedAggregateIsSelf ==
  /\ \A j \in DOMAIN nf.h_agg : \A v \in nf.layers[j] :
       Isolated(v) =>
         /\ v \in nf.layers[j - 1]
         /\ nf.h_agg[j][v] = SetToBag({nf.h[j - 1][v]})
         /\ nf.deg[j][v] = 1
  /\ DivisorsPositive

\* C9 witness: a node without neighbors has been updated
C9_Witness ==
  /\ enc_pc = "done"
  /\ \E v \in SeedLayer(nf) :
       /\ Isolated(v)
       /\ nf.h[nf_num_layers(nf) - 1][v][1] = "update"

\* layer j has been updated for all of its nodes (layer 0 is never updated)
LayerUpdated(j) ==
  j >= 1 /\ j \in DOMAIN nf.h /\ \A v \in nf.layers[j] : IsUpdate(nf.h[j][v], j - 1)

\* the update of layer j has started
LayerStarted(j) ==
  j \in DOMAIN nf.h_agg \/ (j \in DOMAIN nf.h /\ \E v \in nf.layers[j] : nf.h[j][v][1] = "update")

\* C10: aggregation goes from the deepest layer toward the seed layer: the
\* message aggregate of a node is the sum of the embeddings of its sampled
\* in-neighbors as they stand after the update of the adjacent deeper layer
\* (the generated embeddings, for the deepest layer), and no layer's update
\* starts before the adjacent deeper layer is updated for all of its nodes.
C10_DeepestFirst ==
  /\ \A j \in DOMAIN nf.h_agg : \A v \in nf.layers[j] :
       /\ nf.h_agg[j][v] = SumOf(BlockInNeighbors(nf, j - 1, v), nf.h[j - 1])
       /\ \A u \in BlockInNeighbors(nf, j - 1, v) :
            IF j = 1 THEN IsInitialEmbedding(nf.h[0][u])
                     ELSE IsUpdate(nf.h[j - 1][u], j - 2)
  /\ \A j \in DOMAIN nf.layers :
       (j >= 2 /\ LayerStarted(j)) => LayerUpdated(j - 1)

\* C10 witness: a flow of depth 2 has been computed to the end, and a seed
\* aggregated the updated embeddings of several in-neighbors
C10_Witness ==
  /\ enc_pc = "done"
  /\ num_layers = 2
  /\ LayerUpdated(1)
  /\ LayerUpdated(2)
  /\ \E v \in SeedLayer(nf) : Cardinality(BlockInNeighbors(nf, 1, v)) >= 2

\* the own-embedding term h of the update that produced the embedding t
OwnTerm(t) == t[4]

\* C11: the own-embedding term fed to the update of a node v of a
\* non-deepest layer is the embedding of v as produced for the adjacent
\* deeper layer: the generated embedding when that layer is the deepest,
\* the updated embedding otherwise; it is never an embedding generated
\* afresh for the layer that is being updated.
C11_OwnTermFromDeeperLayer ==
  \A j \in DOMAIN nf.h : \A v \in DOMAIN nf.h[j] :
    nf.h[j][v][1] = "update" =>
      /\ v \in nf.layers[j - 1]
      /\ OwnTerm(nf.h[j][v]) = nf.h[j - 1][v]
      /\ IF j = 1 THEN IsInitialEmbedding(OwnTerm(nf.h[j][v]))
                  ELSE IsUpdate(OwnTerm(nf.h[j][v]), j - 2)

\* the weights that belong to the type of a node
LayersOfType(v) == IF NodeType(v) = 1 THEN "user_layers" ELSE "movie_layers"

\* the embedding of node v of layer j is the result of one update, by the
\* weights of the type of v at index j - 1, of an embedding that the same
\* weights had not updated before
UpdatedOnce(j, v) ==
  /\ IsUpdate(nf.h[j][v], j - 1)
  /\ nf.h[j][v][2] = LayersOfType(v)
  /\ ~IsUpdate(OwnTerm(nf.h[j][v]), j - 1)

\* the layers in which some node has been updated
TouchedLayers == {j \in DOMAIN nf.h : \E v \in DOMAIN nf.h[j] : nf.h[j][v][1] = "update"}

\* the layers in which every node has been updated once
UpdatedLayers == {j \in DOMAIN nf.h : j >= 1 /\ \A v \in nf.layers[j] : UpdatedOnce(j, v)}

\* C12: every node of an updated layer receives exactly one update, by the
\* weights of its own type and of the layer index (user nodes by
\* user_layers[i], movie nodes by movie_layers[i]); no node is updated twice
\* or skipped, and as many update steps are applied as the flow has blocks.
C12_OneUpdatePerNodeByType ==
  /\ \A j \in DOMAIN nf.h : \A v \in DOMAIN nf.h[j] :
       nf.h[j][v][1] = "update" => (j >= 1 /\ UpdatedOnce(j, v))
  /\ enc_pc = "block" =>
       /\ Cardinality(UpdatedLayers) = enc_i
       /\ TouchedLayers = UpdatedLayers
  /\ enc_pc = "apply_movie" =>
       \A v \in user_nodes(nf, CurrentBlock + 1) : UpdatedOnce(CurrentBlock + 1, v)
  /\ enc_pc \in {"return", "lookup", "done"} =>
       /\ UpdatedLayers = 1..nf_num_blocks(nf)
       /\ TouchedLayers = UpdatedLayers
       /\ nf_num_blocks(nf) = num_layers

\* C12 witness: a flow of depth 2 whose seed layer holds a user and a movie
\* has been computed to the end
C12_Witness ==
  /\ enc_pc = "done"
  /\ num_layers = 2
  /\ user_nodes(nf, 2) # {}
  /\ movie_nodes(nf, 2) # {}
  /\ UpdatedLayers = {1, 2}

\* C14: every flow is built with the self-loops, so the in-degree that
\* divides the message aggregate counts the self-loop and is at least 1 for
\* every node of every updated layer, in the flows of the training batches
\* and in those of test(); the divisor is the degree itself, never the
\* floor 1e-6.
C14_DegreeCountsSelfLoop ==
  /\ FlowBuilt =>
       \A i \in DOMAIN nf.blocks : \A v \in nf.layers[i + 1] : <<v, v>> \in nf.blocks[i]
  /\ \A j \in DOMAIN nf.deg : \A v \in nf.layers[j] :
       /\ nf.deg[j][v] = Cardinality(BlockInNeighbors(nf, j - 1, v))
       /\ nf.deg[j][v] >= 1
       /\ Divisor(nf.deg[j][v]) = nf.deg[j][v] * EpsInv
  /\ \A j \in DOMAIN nf.h : \A v \in DOMAIN nf.h[j] :
       nf.h[j][v][1] = "update" =>
         /\ nf.h[j][v][6] = nf.deg[j][v] * EpsInv
         /\ nf.h[j][v][6] >= EpsInv

\* C14 witness: test() has computed a flow in which a node without
\* neighbors was updated with degree 1 next to a node of a larger degree
C14_Witness ==
  /\ enc_pc = "done"
  /\ mode = "test"
  /\ \E v, w \in SeedLayer(nf) :
       /\ Isolated(v)
       /\ nf.deg[nf_num_layers(nf) - 1][v] = 1
       /\ nf.h[nf_num_layers(nf) - 1][v][6] = EpsInv
       /\ nf.deg[nf_num_layers(nf) - 1][w] >= 2

(* ------------------- properties of the training loop ------------------ *)
\* the learned parameters: the tables, as far as the model holds them, and
\* the number of optimizer steps that made them
Parameters == <<biases, trainer_steps>>

\* C13: during training the learned parameters change only in the optimizer
\* step that follows the forward and backward computation of a batch;
\* exactly one optimizer step is taken per batch, never while the batch is
\* in its forward computation, and the prefetching workers of the sampler
\* never write the parameters or the graph.
C13_ParametersChangeOnlyInStep ==
  /\ [][Parameters' # Parameters =>
          (/\ pc = "step"
           /\ pc' = "for"
           /\ trainer_steps' = trainer_steps + 1
           /\ num_batches' = num_batches + 1
           /\ item' = item)]_vars
  /\ [][(pc = "step" /\ pc' # "step") =>
          (trainer_steps' = trainer_steps + 1 /\ biases' # biases)]_vars
  /\ [][pc = "forward" => Parameters' = Parameters]_vars
  /\ [][(Len(prefetched') > Len(prefetched) \/ es'.sampler.idx > es.sampler.idx) =>
          (Parameters' = Parameters /\ g' = g)]_vars
  /\ [][g' = g]_vars
  /\ [](pc \in {"forward", "step"} => num_batches = es.i - 1)
  /\ [](pc # "idle" =>
          trainer_steps = (epoch - 1) * CeilDiv(NumEdges, batch_size) + num_batches)
  /\ [](pc = "idle" => trainer_steps = epoch * CeilDiv(NumEdges, batch_size))

\* C13 witness: in the second epoch a batch is in its forward computation
\* while the workers have sampled NodeFlows ahead, after optimizer steps of
\* earlier batches
C13_Witness ==
  /\ pc = "forward"
  /\ epoch = 2
  /\ num_batches >= 1
  /\ Len(prefetched) >= 1
  /\ trainer_steps >= 3
  /\ \E k \in DOMAIN biases : biases[k] >= 2

(* --------------------- properties of the decoder ---------------------- *)
\* the entry of the bias table that belongs to a node id
BiasEntry == [v \in Nodes |-> v + 2]

\* the dot product of two vectors of the same length
DotProduct(a, b) ==
  LET RECURSIVE Upto(_)
      Upto(c) == IF c = 0 THEN 0 ELSE Upto(c - 1) + a[c] * b[c]
  IN  Upto(Len(a))

\* C8: the scorer returns dot(h_src, h_dst) + bias[src_id] + bias[dst_id]
\* for every pair of the batch, where bias is one table in which every node
\* id has an entry of its own, the same whatever the state.
C8_ScoreIsDotPlusBiases ==
  /\ \A v, w \in Nodes :
       /\ BiasEntry[v] \in DOMAIN biases
       /\ v # w => BiasEntry[v] # BiasEntry[w]
  /\ dec_pc = "scored" =>
       /\ Len(score) = Len(users)
       /\ \A k \in 1..Len(users) :
            score[k] = DotProduct(h_users[k], h_items[k])
                         + biases[BiasEntry[users[k]]]
                         + biases[BiasEntry[items[k]]]

\* C8 witness: a pair was scored whose dot product is not zero and whose
\* two biases differ
C8_Witness ==
  /\ dec_pc = "scored"
  /\ \E k \in 1..Len(users) :
       /\ DotProduct(h_users[k], h_items[k]) # 0
       /\ biases[BiasEntry[users[k]]] # biases[BiasEntry[items[k]]]
       /\ biases[BiasEntry[items[k]]] # 0

====
